---- MODULE Spec2Model ----
(***************************************************************************)
(* Video ingestion pipeline of the tubely server: handlerUploadVideo       *)
(* (write path), dbVideoToSignedVideo / generatePresignedURL (read path),  *)
(* getVideoAspectRatio and processVideoForFastStart (external tools).      *)
(*                                                                         *)
(* Conventions.  A Go string is a sequence of one-character strings, so    *)
(* that splitting and trimming are computed on characters.  A Go *string   *)
(* is a sequence of length 0 (nil) or 1 (pointer to the string).  A Go     *)
(* error is a tag, "nil" when there is none.  A time.Duration is counted   *)
(* in seconds.  A file path is a sequence of path tokens.                  *)
(***************************************************************************)
EXTENDS Integers, Sequences, FiniteSets, TLC

VARIABLES
    cfg,    \* apiConfig: s3Bucket, s3Region
    db,     \* the video record held by the database
    fs,     \* the paths that exist on the local filesystem
    reqs,   \* upload requests handled so far (also seeds os.CreateTemp's suffix)
    input,  \* the arguments of the function under call (SpecCalls)
    last    \* what the most recently completed operation did and returned

vars == <<cfg, db, fs, reqs, input, last>>

(***************************************************************************)
(* Bounds                                                                  *)
(***************************************************************************)
MaxLen == 4        \* longest stored reference string handed to the read path
MaxRequests == 2   \* upload requests per behaviour
MaxDim == 24       \* largest width and height of the geometry grid

(***************************************************************************)
(* Go values                                                               *)
(***************************************************************************)
NoErr == "nil"

NilPtr == <<>>

Ptr(s) == <<s>>

Deref(p) == p[1]

EmptyString == <<>>

RECURSIVE Concat(_)
Concat(ss) == IF ss = <<>> THEN <<>> ELSE Head(ss) \o Concat(Tail(ss))

\* unicode.IsSpace, on the characters the model draws from
IsSpace(c) == c \in {" ", "\t", "\n", "\r"}

\* strings.Index(s, sep) for a one-character sep: 0 when absent (Go: -1)
RECURSIVE IndexFrom(_, _, _)
IndexFrom(s, sep, i) ==
    IF i > Len(s) THEN 0
    ELSE IF s[i] = sep THEN i
    ELSE IndexFrom(s, sep, i + 1)

\* a cut that leaves the separator at the head of the second substring
SplitKeepingSep(s, sep) ==
    LET i == IndexFrom(s, sep, 1)
    IN  IF i = 0 THEN <<s>>
        ELSE <<SubSeq(s, 1, i - 1), SubSeq(s, i, Len(s))>>

\* strings.SplitN(s, sep, 2): at most two substrings, cut at the first sep
SplitN2(s, sep) ==
    LET i == IndexFrom(s, sep, 1)
    IN  IF i = 0 THEN <<s>>
        ELSE <<SubSeq(s, 1, i - 1), SubSeq(s, i + 1, Len(s))>>

RECURSIVE TrimLeft(_)
TrimLeft(s) ==
    IF s # <<>> /\ IsSpace(Head(s)) THEN TrimLeft(Tail(s)) ELSE s

RECURSIVE TrimRight(_)
TrimRight(s) ==
    IF s # <<>> /\ IsSpace(s[Len(s)]) THEN TrimRight(SubSeq(s, 1, Len(s) - 1)) ELSE s

\* strings.TrimSpace
TrimSpace(s) == TrimRight(TrimLeft(s))

(***************************************************************************)
(* float64 (IEEE 754 binary64, round to nearest, ties to even)             *)
(*   A positive float64 is [e, m]: m is its 53-bit significand, most       *)
(*   significant bit first (m[1] = 1), and its value lies in               *)
(*   [2^e, 2^(e+1)).  FZero is 0.0.  Only the operations the aspect-ratio  *)
(*   computation performs are defined: the quotient of two positive        *)
(*   integers, the absolute value of a difference, and "<".                *)
(***************************************************************************)
Precision == 53

FZero == [e |-> 0, m |-> <<>>]

RECURSIVE Pow2(_)
Pow2(k) == IF k = 0 THEN 1 ELSE 2 * Pow2(k - 1)

\* the e with 2^e <= n/d < 2^(e+1), searched upward or downward from e
RECURSIVE Exponent(_, _, _)
Exponent(n, d, e) ==
    IF e >= 0
    THEN IF n >= d * Pow2(e + 1) THEN Exponent(n, d, e + 1)
         ELSE IF n < d * Pow2(e) THEN Exponent(n, d, e - 1)
         ELSE e
    ELSE IF n * Pow2(-e) < d THEN Exponent(n, d, e - 1)
         ELSE e

\* 2^k mod den, by repeated squaring
RECURSIVE Pow2Mod(_, _)
Pow2Mod(k, den) ==
    IF k = 0 THEN 1 % den
    ELSE IF k % 2 = 0
    THEN LET half == Pow2Mod(k \div 2, den) IN (half * half) % den
    ELSE (2 * Pow2Mod(k - 1, den)) % den

\* long division of rem/den (0 <= rem < den): the remainder left after k
\* quotient bits, and the k-th quotient bit
RemAfter(rem, den, k) == (rem * Pow2Mod(k, den)) % den

DivBit(rem, den, k) == IF 2 * RemAfter(rem, den, k - 1) >= den THEN 1 ELSE 0

DivBits(rem, den, k) ==
    [bits |-> [i \in 1..k |-> DivBit(rem, den, i)], rem |-> RemAfter(rem, den, k)]

\* bits + 1, as a sequence of the same length, and the carry out
Increment(bits) ==
    LET n == Len(bits)
        zeros == {i \in 1..n : bits[i] = 0}
    IN  IF zeros = {}
        THEN [bits |-> [i \in 1..n |-> 0], carry |-> 1]
        ELSE LET j == CHOOSE i \in zeros : \A k \in zeros : k <= i
             IN  [bits |-> [i \in 1..n |-> IF i < j THEN bits[i]
                                           ELSE IF i = j THEN 1 ELSE 0],
                  carry |-> 0]

\* round (bits of a value in [2^e, 2^(e+1)), more = -1/0/1 as the discarded
\* part is below, at or above half a unit of the last place) to nearest even
RoundEven(e, bits, more) ==
    IF more > 0 \/ (more = 0 /\ bits[Len(bits)] = 1)
    THEN LET up == Increment(bits)
         IN  IF up.carry = 1
             THEN [e |-> e + 1, m |-> <<1>> \o SubSeq(up.bits, 1, Len(bits) - 1)]
             ELSE [e |-> e, m |-> up.bits]
    ELSE [e |-> e, m |-> bits]

\* float64(n) / float64(d) for positive integers n, d below 2^53
FDiv(n, d) ==
    LET e == Exponent(n, d, 0)
        num == IF e >= 0 THEN n ELSE n * Pow2(-e)
        den == IF e >= 0 THEN d * Pow2(e) ELSE d
        q == DivBits(num - den, den, Precision - 1)
        more == IF 2 * q.rem > den THEN 1 ELSE IF 2 * q.rem = den THEN 0 ELSE -1
    IN  RoundEven(e, <<1>> \o q.bits, more)

Zeros(k) == [i \in 1..k |-> 0]

\* -1, 0, 1 as bit sequence a (same length as b) is below, equal to, above b
CmpBits(a, b) ==
    LET diff == {i \in 1..Len(a) : a[i] # b[i]}
    IN  IF diff = {} THEN 0
        ELSE LET j == CHOOSE i \in diff : \A k \in diff : i <= k
             IN  IF a[j] > b[j] THEN 1 ELSE -1

FCmp(a, b) ==
    IF a = FZero \/ b = FZero
    THEN (IF a = b THEN 0 ELSE IF a = FZero THEN -1 ELSE 1)
    ELSE IF a.e # b.e THEN (IF a.e > b.e THEN 1 ELSE -1)
    ELSE CmpBits(a.m, b.m)

FLess(a, b) == FCmp(a, b) < 0

\* a - b for bit sequences of one length with a >= b: a bit borrows from the
\* next higher one exactly when the bits after it are below those of b
Borrow(a, b, i) ==
    LET diff == {j \in (i + 1)..Len(a) : a[j] # b[j]}
    IN  IF diff = {} THEN 0
        ELSE LET j == CHOOSE x \in diff : \A y \in diff : x <= y
             IN  IF a[j] < b[j] THEN 1 ELSE 0

SubBits(a, b) == [i \in 1..Len(a) |-> (a[i] - b[i] - Borrow(a, b, i)) % 2]

LeadingZeros(bits) ==
    LET ones == {i \in 1..Len(bits) : bits[i] = 1}
    IN  IF ones = {} THEN Len(bits)
        ELSE (CHOOSE i \in ones : \A k \in ones : i <= k) - 1

\* math.Abs(a - b) for positive float64 a, b: the exact difference, rounded
FAbsDiff(a, b) ==
    IF FCmp(a, b) = 0 THEN FZero
    ELSE
        LET hi == IF FCmp(a, b) > 0 THEN a ELSE b
            lo == IF FCmp(a, b) > 0 THEN b ELSE a
            shift == hi.e - lo.e
            exact == SubBits(hi.m \o Zeros(shift), Zeros(shift) \o lo.m)
            z == LeadingZeros(exact)
            sig == SubSeq(exact, z + 1, Len(exact))
            e == hi.e - z
        IN  IF Len(sig) <= Precision
            THEN [e |-> e, m |-> sig \o Zeros(Precision - Len(sig))]
            ELSE
                LET kept == SubSeq(sig, 1, Precision)
                    cut == SubSeq(sig, Precision + 1, Len(sig))
                    half == <<1>> \o Zeros(Len(cut) - 1)
                IN  RoundEven(e, kept, CmpBits(cut, half))


(***************************************************************************)
(* Durations (seconds)                                                     *)
(***************************************************************************)
Minute == 60

Hour == 60 * Minute

defaultExpiry == 15 * Minute

maxTTL == 7 * 24 * Hour

(***************************************************************************)
(* generatePresignedURL (video.go)                                         *)
(*   client: "nil" or "client"; signOk: whether PresignGetObject succeeds. *)
(*   Returns the URL, the error and the signing requests made, in order.   *)
(***************************************************************************)
\* the URL the presign client returns: opaque, one per (bucket, key, expiry)
PresignedURL(bucket, key, expires) ==
    <<"https://presigned/">> \o bucket \o <<"/">> \o key
        \o <<"?X-Amz-Expires=", ToString(expires)>>

\* the default substituted for negative durations only
ClampExpiryNegativeOnly(expireTime) ==
    LET e1 == IF expireTime < 0 THEN 15 * Minute ELSE expireTime
    IN  IF e1 > maxTTL THEN maxTTL ELSE e1

\* "if expireTime <= 0 { ... }" and "if expireTime > maxTTL { ... }"
ClampExpiry(expireTime) ==
    LET e1 == IF expireTime <= 0 THEN 15 * Minute ELSE expireTime
    IN  IF e1 > maxTTL THEN maxTTL ELSE e1

generatePresignedURL(client, bucket, key, expireTime, signOk) ==
    IF client = "nil"
    THEN [url |-> EmptyString, err |-> "s3Client is nil", signed |-> <<>>]
    ELSE IF bucket = EmptyString \/ key = EmptyString
    THEN [url |-> EmptyString, err |-> "bucket and key are required", signed |-> <<>>]
    ELSE
        LET expires == ClampExpiry(expireTime)
            req == [Bucket |-> bucket, Key |-> key, Expires |-> expires]
        IN  IF ~signOk
            THEN [url |-> EmptyString, err |-> "presign get object",
                  signed |-> <<req>>]
            ELSE [url |-> PresignedURL(bucket, key, expires), err |-> NoErr,
                  signed |-> <<req>>]

(***************************************************************************)
(* dbVideoToSignedVideo (video.go)                                         *)
(*   Returns the record, the error, the calls of generatePresignedURL      *)
(*   (asked) and the signing requests made (signed).                       *)
(***************************************************************************)
EmptyURLAsAbsent(video) ==
    [video |-> video, err |-> NoErr, asked |-> <<>>, signed |-> <<>>]

\* "if *video.VideoURL == "" { return video, fmt.Errorf(...) }"
EmptyURLResult(video) ==
    [video |-> video, err |-> "video has empty VideoURL", asked |-> <<>>,
     signed |-> <<>>]

MissingBoth(bucket, key) == bucket = EmptyString /\ key = EmptyString

\* "bucket == "" || key == """
MissingPart(bucket, key) == bucket = EmptyString \/ key = EmptyString

dbVideoToSignedVideo(client, video, signOk) ==
    IF video.VideoURL = NilPtr
    THEN [video |-> video, err |-> NoErr, asked |-> <<>>, signed |-> <<>>]
    ELSE IF Deref(video.VideoURL) = EmptyString
    THEN EmptyURLResult(video)
    ELSE
        LET parts == SplitN2(Deref(video.VideoURL), ",")
        IN  IF Len(parts) # 2
            THEN [video |-> video, err |-> "invalid VideoURL format",
                  asked |-> <<>>, signed |-> <<>>]
            ELSE
                LET bucket == TrimSpace(parts[1])
                    key == TrimSpace(parts[2])
                    ask == [bucket |-> bucket, key |-> key,
                            expireTime |-> defaultExpiry]
                IN  IF MissingPart(bucket, key)
                    THEN [video |-> video, err |-> "invalid bucket/key",
                          asked |-> <<>>, signed |-> <<>>]
                    ELSE
                        LET r == generatePresignedURL(client, bucket, key,
                                                      defaultExpiry, signOk)
                        IN  IF r.err # NoErr
                            THEN [video |-> video, err |-> "presigning S3 URL",
                                  asked |-> <<ask>>, signed |-> r.signed]
                            ELSE [video |-> [video EXCEPT !.VideoURL = Ptr(r.url)],
                                  err |-> NoErr, asked |-> <<ask>>,
                                  signed |-> r.signed]

(***************************************************************************)
(* getVideoAspectRatio (video.go)                                          *)
(*   probe: what running ffprobe on the file does: runOk (exit status 0),  *)
(*   jsonOk (its standard output parses), streams (the parsed streams).    *)
(*   Returns the label, the error and the external processes started.      *)
(***************************************************************************)
target169 == FDiv(16, 9)

target916AsWide == FDiv(16, 9)

target916 == FDiv(9, 16)

eps == FDiv(2, 100)

\* math.Abs(r - target) < eps
Near(r, target) == FLess(FAbsDiff(r, target), eps)

\* the switch over r := float64(w) / float64(h)
AspectLabel(w, h) ==
    LET r == FDiv(w, h)
    IN  IF Near(r, target169) THEN "16:9"
        ELSE IF Near(r, target916) THEN "9:16"
        ELSE "other"

\* the first video stream with positive width and height; <<0, 0>> if none
RECURSIVE FirstVideoStream(_)
FirstVideoStream(streams) ==
    IF streams = <<>> THEN <<0, 0>>
    ELSE LET s == Head(streams)
         IN  IF s.CodecType = "video" /\ s.Width > 0 /\ s.Height > 0
             THEN <<s.Width, s.Height>>
             ELSE FirstVideoStream(Tail(streams))

getVideoAspectRatio(filePath, probe) ==
    LET started == <<[tool |-> "ffprobe", path |-> filePath]>>
    IN  IF ~probe.runOk
        THEN [val |-> "", err |-> "ffprobe failed", ext |-> started]
        ELSE IF ~probe.jsonOk
        THEN [val |-> "", err |-> "failed to parse ffprobe to JSON", ext |-> started]
        ELSE
            LET wh == FirstVideoStream(probe.streams)
            IN  IF wh[1] = 0 \/ wh[2] = 0
                THEN [val |-> "", err |-> "no valid video stream found",
                      ext |-> started]
                ELSE [val |-> AspectLabel(wh[1], wh[2]), err |-> NoErr,
                      ext |-> started]

(***************************************************************************)
(* processVideoForFastStart (video.go)                                     *)
(*   ffmpeg: what running ffmpeg does: runOk (exit status 0), wrote (it    *)
(*   left a file at the output path), size (that file's size).             *)
(*   Returns the output path, the error, the external processes started    *)
(*   and the paths the call created.                                       *)
(***************************************************************************)
EmptyPath == <<>>

processVideoForFastStart(filePath, ffmpeg) ==
    IF filePath = EmptyPath
    THEN [val |-> EmptyPath, err |-> "empty input file path", ext |-> <<>>,
          made |-> {}]
    ELSE
        LET outPath == filePath \o <<".processing">>
            started == <<[tool |-> "ffmpeg", path |-> filePath, out |-> outPath]>>
            made == IF ffmpeg.wrote THEN {outPath} ELSE {}
        IN  IF ~ffmpeg.runOk
            THEN [val |-> EmptyPath, err |-> "ffmpeg faststart failed",
                  ext |-> started, made |-> made]
            ELSE IF ~ffmpeg.wrote
            THEN [val |-> EmptyPath, err |-> "processed file missing",
                  ext |-> started, made |-> made]
            ELSE IF ffmpeg.size = 0
            THEN [val |-> EmptyPath, err |-> "processed file is empty",
                  ext |-> started, made |-> made]
            ELSE [val |-> outPath, err |-> NoErr, ext |-> started, made |-> made]

(***************************************************************************)
(* handlerUploadVideo (handler_upload_video.go)                            *)
(*   e: what the request carries and what each collaborator answers.       *)
(*   The result holds the HTTP status, the calls made in order (trace),    *)
(*   the deferred calls run on return, the database record, the            *)
(*   filesystem, the temporary file's name and the JSON body.              *)
(***************************************************************************)
KeyBytes == 16

HexDigits == <<"0", "1", "2", "3", "4", "5", "6", "7",
               "8", "9", "a", "b", "c", "d", "e", "f">>

\* hex.EncodeToString
EncodeToString(b) ==
    Concat([i \in 1..Len(b) |-> <<HexDigits[(b[i] \div 16) + 1],
                                  HexDigits[(b[i] % 16) + 1]>>])

\* mime.ParseMediaType, on the Content-Type values the model draws from
ParseMediaType(v) ==
    CASE v = "video/mp4" -> [mediatype |-> "video/mp4", ok |-> TRUE]
      [] v = "VIDEO/MP4" -> [mediatype |-> "video/mp4", ok |-> TRUE]
      [] v = "video/mp4; codecs=avc1" -> [mediatype |-> "video/mp4", ok |-> TRUE]
      [] v = "image/png" -> [mediatype |-> "image/png", ok |-> TRUE]
      [] OTHER -> [mediatype |-> "", ok |-> FALSE]

\* the switch over aspectRatio
Orientation(aspectRatio) ==
    CASE aspectRatio = "16:9" -> <<"l", "a", "n", "d", "s", "c", "a", "p", "e">>
      [] aspectRatio = "9:16" -> <<"p", "o", "r", "t", "r", "a", "i", "t">>
      [] OTHER -> <<"o", "t", "h", "e", "r">>

\* orientation + "/" + randomHex + ".mp4"
VideoKey(orientation, randomHex) ==
    orientation \o <<"/">> \o randomHex \o <<".", "m", "p", "4">>

\* fmt.Sprintf("https://%s.s3.%s.amazonaws.com/%s", bucket, region, key)
VideoURLOf(bucket, region, key) ==
    <<"h", "t", "t", "p", "s", ":", "/", "/">> \o bucket
        \o <<".", "s", "3", ".">> \o region
        \o <<".", "a", "m", "a", "z", "o", "n", "a", "w", "s", ".", "c", "o", "m", "/">>
        \o key

tempVideoName == <<"tubely-upload.mp4">>

\* os.CreateTemp("", tempVideoName): a new file in the temporary directory
\* whose name is the pattern followed by a string no existing file has
CreateTempName(n) == <<"/tmp/", "tubely-upload.mp4", ToString(n)>>

\* cfg.db.UpdateVideo: the record is replaced, or on error left as it was
UpdateVideo(d, video, ok) == IF ok THEN video ELSE d

\* the error of the upload left unchecked
FailedButUpload(call, ok) == call # "PutObject" /\ ~ok

\* "if err != nil { respondWithError(...); return }" after a call
Failed(call, ok) == ~ok

Called(call, ok, arg) == [call |-> call, ok |-> ok, arg |-> arg]

uploadVideo(c, d, f, n, e, aspect) ==
    LET Respond(status, trace, deferred, d2, f2, temp, body) ==
            [status |-> status, trace |-> trace, deferred |-> deferred,
             db |-> d2, fs |-> f2, temp |-> temp, body |-> body]
        video == d
        mt == ParseMediaType(e.mediaType)
        dstName == CreateTempName(n)
        f1 == f \cup {dstName}
        defer1 == <<"file.Close">>
        defer2 == <<"dst.Close", "os.Remove", "file.Close">>
        \* the deferred os.Remove(tempVideoName)
        f2 == f1 \ {tempVideoName}
        orientation == Orientation(aspect.val)
        videoKey == VideoKey(orientation, EncodeToString(e.rand))
        put == [Bucket |-> c.s3Bucket, Key |-> videoKey,
                Body |-> [path |-> dstName, offset |-> 0],
                ContentType |-> e.mediaType]
        videoUrl == VideoURLOf(c.s3Bucket, c.s3Region, videoKey)
        video2 == [video EXCEPT !.VideoURL = Ptr(videoUrl)]
        \* the calls of a request that runs to the end, in program order; a
        \* request that returns early has made a prefix of them
        calls == <<Called("uuid.Parse", e.videoIDOk, <<>>),
                   Called("auth.GetBearerToken", e.bearerOk, <<>>),
                   Called("auth.ValidateJWT", e.jwtOk, <<>>),
                   Called("GetVideo", e.getVideoOk, <<>>),
                   Called("FormFile", e.formFileOk, <<>>),
                   Called("mime.ParseMediaType", mt.ok, <<>>),
                   Called("os.CreateTemp", e.createTempOk, dstName),
                   Called("io.Copy", e.copyOk, dstName),
                   Called("getVideoAspectRatio", aspect.err = NoErr, aspect.ext),
                   Called("classify", TRUE, orientation),
                   Called("dst.Seek", e.seekOk, 0),
                   Called("rand.Read", e.randOk, <<>>),
                   Called("PutObject", e.putOk, put),
                   Called("UpdateVideo", e.updateOk, video2)>>
        Upto(k) == SubSeq(calls, 1, k)
    IN  IF Failed("uuid.Parse", e.videoIDOk)
        THEN Respond(400, Upto(1), <<>>, d, f, EmptyPath, NilPtr)
        ELSE IF Failed("auth.GetBearerToken", e.bearerOk)
        THEN Respond(401, Upto(2), <<>>, d, f, EmptyPath, NilPtr)
        ELSE IF Failed("auth.ValidateJWT", e.jwtOk)
        THEN Respond(401, Upto(3), <<>>, d, f, EmptyPath, NilPtr)
        ELSE IF Failed("GetVideo", e.getVideoOk)
        THEN Respond(500, Upto(4), <<>>, d, f, EmptyPath, NilPtr)
        ELSE IF e.userID # video.UserID
        THEN Respond(401, Upto(4), <<>>, d, f, EmptyPath, NilPtr)
        ELSE IF Failed("FormFile", e.formFileOk)
        THEN Respond(400, Upto(5), <<>>, d, f, EmptyPath, NilPtr)
        ELSE IF e.mediaType = ""
        THEN Respond(400, Upto(5), defer1, d, f, EmptyPath, NilPtr)
        ELSE IF Failed("mime.ParseMediaType", mt.ok)
        THEN Respond(400, Upto(6), defer1, d, f, EmptyPath, NilPtr)
        ELSE IF mt.mediatype # "video/mp4"
        THEN Respond(400, Upto(6), defer1, d, f, EmptyPath, NilPtr)
        ELSE IF Failed("os.CreateTemp", e.createTempOk)
        THEN Respond(500, Upto(7), defer1, d, f, EmptyPath, NilPtr)
        ELSE IF Failed("io.Copy", e.copyOk)
        THEN Respond(500, Upto(8), defer2, d, f2, dstName, NilPtr)
        ELSE IF Failed("getVideoAspectRatio", aspect.err = NoErr)
        THEN Respond(500, Upto(9), defer2, d, f2, dstName, NilPtr)
        ELSE IF Failed("dst.Seek", e.seekOk)
        THEN Respond(500, Upto(11), defer2, d, f2, dstName, NilPtr)
        ELSE IF Failed("rand.Read", e.randOk)
        THEN Respond(500, Upto(12), defer2, d, f2, dstName, NilPtr)
        ELSE IF Failed("PutObject", e.putOk)
        THEN Respond(500, Upto(13), defer2, d, f2, dstName, NilPtr)
        ELSE IF Failed("UpdateVideo", e.updateOk)
        THEN Respond(500, Upto(14), defer2, UpdateVideo(d, video2, e.updateOk), f2,
                     dstName, NilPtr)
        ELSE Respond(200, Upto(14), defer2, UpdateVideo(d, video2, e.updateOk), f2,
                     dstName, Ptr(video2))

\* the handler: uploadVideo, given what its one call of getVideoAspectRatio
\* on the temporary file returns
handlerUploadVideo(c, d, f, n, e) ==
    uploadVideo(c, d, f, n, e, getVideoAspectRatio(CreateTempName(n), e.probe))

(***************************************************************************)
(* Inputs                                                                  *)
(***************************************************************************)
Configs ==
    {[s3Bucket |-> b, s3Region |-> <<"e", "u">>] : b \in {<<"b">>, <<"t", "v">>}}

\* the working directory may or may not hold a file named like the pattern
InitialFs == {{}, {tempVideoName}}

VideoStream(w, h) == [CodecType |-> "video", Width |-> w, Height |-> h]

AudioStream == [CodecType |-> "audio", Width |-> 0, Height |-> 0]

Probed(streams) == [runOk |-> TRUE, jsonOk |-> TRUE, streams |-> streams]

ProbeFailed == [runOk |-> FALSE, jsonOk |-> FALSE, streams |-> <<>>]

ProbeGarbled == [runOk |-> TRUE, jsonOk |-> FALSE, streams |-> <<>>]

Probes ==
    {ProbeFailed, ProbeGarbled}
    \cup {Probed(ss) : ss \in {<<>>, <<AudioStream>>,
                               <<VideoStream(1920, 1080)>>,
                               <<AudioStream, VideoStream(1280, 720)>>,
                               <<VideoStream(0, 1080), VideoStream(1080, 1920)>>,
                               <<VideoStream(1000, 1000), VideoStream(1920, 1080)>>}}

RandomBytes == {[i \in 1..KeyBytes |-> v] : v \in {0, 171}}

MediaTypes == {"", "video/mp4", "VIDEO/MP4", "video/mp4; codecs=avc1",
               "image/png", "video/mp4 x"}

OkEnv ==
    [videoIDOk |-> TRUE, bearerOk |-> TRUE, jwtOk |-> TRUE, userID |-> "u1",
     getVideoOk |-> TRUE, formFileOk |-> TRUE, mediaType |-> "video/mp4",
     createTempOk |-> TRUE, copyOk |-> TRUE,
     probe |-> Probed(<<VideoStream(1920, 1080)>>),
     seekOk |-> TRUE, randOk |-> TRUE, rand |-> [i \in 1..KeyBytes |-> 0],
     putOk |-> TRUE, updateOk |-> TRUE]

Flags == {"videoIDOk", "bearerOk", "jwtOk", "getVideoOk", "formFileOk",
          "createTempOk", "copyOk", "seekOk", "randOk", "putOk", "updateOk"}

\* requests: every collaborator answers, or exactly one of them fails
Envs ==
    {[OkEnv EXCEPT ![f] = FALSE] : f \in Flags}
    \cup {[OkEnv EXCEPT !.userID = "u2"]}
    \cup {[OkEnv EXCEPT !.mediaType = m] : m \in MediaTypes}
    \cup {[OkEnv EXCEPT !.probe = p, !.rand = r] : p \in Probes, r \in RandomBytes}

Alphabet == {"a", ",", " "}

StringsUpTo(n) == UNION {[1..k -> Alphabet] : k \in 0..n}

\* geometries: the grid, the examples, and ratios on the edge of a band
Geometries ==
    ((1..MaxDim) \X (1..MaxDim))
    \cup {<<1920, 1080>>, <<1280, 720>>, <<1080, 1920>>, <<1000, 1000>>,
          <<791, 450>>, <<809, 450>>, <<233, 400>>, <<217, 400>>}

Durations ==
    {-Hour, -1, 0, 1, defaultExpiry, Hour, maxTTL - 1, maxTTL, maxTTL + 1,
     30 * 24 * Hour}

SomePath == <<"/tmp/", "video.mp4">>

Clients == {"nil", "client"}

CallInputs ==
    {[op |-> "handlerUploadVideo",
      e |-> [OkEnv EXCEPT !.probe = Probed(<<VideoStream(g[1], g[2])>>)]] :
        g \in Geometries}
    \cup {[op |-> "getVideoAspectRatio", filePath |-> SomePath, probe |-> p] :
            p \in Probes}
    \* ffprobe given an empty path finds no file and exits with an error
    \cup {[op |-> "getVideoAspectRatio", filePath |-> EmptyPath,
           probe |-> ProbeFailed]}
    \cup {[op |-> "processVideoForFastStart", filePath |-> fp,
           ffmpeg |-> [runOk |-> r, wrote |-> w, size |-> z]] :
            fp \in {EmptyPath, SomePath}, r \in BOOLEAN, w \in BOOLEAN,
            z \in {0, 1024}}
    \cup {[op |-> "generatePresignedURL", client |-> c, bucket |-> b, key |-> k,
           expireTime |-> d, signOk |-> ok] :
            c \in Clients, b \in {EmptyString, <<"b">>},
            k \in {EmptyString, <<"k">>}, d \in Durations, ok \in BOOLEAN}
    \cup {[op |-> "dbVideoToSignedVideo", client |-> c, url |-> u, signOk |-> ok] :
            c \in Clients, ok \in BOOLEAN,
            u \in {NilPtr} \cup {Ptr(x) : x \in StringsUpTo(MaxLen)}}

Serving == [op |-> "serve"]

(***************************************************************************)
(* State machine                                                           *)
(***************************************************************************)
InitBase ==
    /\ cfg \in Configs
    /\ db = [UserID |-> "u1", VideoURL |-> NilPtr]
    /\ fs \in InitialFs
    /\ reqs = 0
    /\ last = [op |-> "none", out |-> <<>>]

Init == InitBase /\ input = Serving

InitCalls == InitBase /\ input \in CallInputs

Upload(e) ==
    LET r == handlerUploadVideo(cfg, db, fs, reqs, e)
    IN  /\ db' = r.db
        /\ fs' = r.fs
        /\ reqs' = reqs + 1
        /\ last' = [op |-> "handlerUploadVideo",
                    out |-> [before |-> db, status |-> r.status, trace |-> r.trace,
                             deferred |-> r.deferred, temp |-> r.temp,
                             body |-> r.body]]
        /\ UNCHANGED <<cfg, input>>

\* one upload request, handled from start to return
UploadVideo ==
    /\ input = Serving
    /\ reqs < MaxRequests
    /\ \E e \in Envs : Upload(e)

\* the stored record passed through the read path before it is returned
ReadVideo ==
    /\ input = Serving
    /\ \E ok \in BOOLEAN :
          last' = [op |-> "dbVideoToSignedVideo",
                   out |-> dbVideoToSignedVideo("client", db, ok)]
    /\ UNCHANGED <<cfg, db, fs, reqs, input>>

CallUploadVideo ==
    /\ input.op = "handlerUploadVideo"
    /\ reqs < MaxRequests
    /\ Upload(input.e)

CallGetVideoAspectRatio ==
    /\ input.op = "getVideoAspectRatio"
    /\ last' = [op |-> input.op,
                out |-> getVideoAspectRatio(input.filePath, input.probe)]
    /\ UNCHANGED <<cfg, db, fs, reqs, input>>

CallProcessVideoForFastStart ==
    /\ input.op = "processVideoForFastStart"
    /\ LET r == processVideoForFastStart(input.filePath, input.ffmpeg)
       IN  /\ fs' = fs \cup r.made
           /\ last' = [op |-> input.op, out |-> r]
    /\ UNCHANGED <<cfg, db, reqs, input>>

CallGeneratePresignedURL ==
    /\ input.op = "generatePresignedURL"
    /\ last' = [op |-> input.op,
                out |-> generatePresignedURL(input.client, input.bucket, input.key,
                                             input.expireTime, input.signOk)]
    /\ UNCHANGED <<cfg, db, fs, reqs, input>>

CallDbVideoToSignedVideo ==
    /\ input.op = "dbVideoToSignedVideo"
    /\ last' = [op |-> input.op,
                out |-> dbVideoToSignedVideo(
                            input.client,
                            [UserID |-> "u1", VideoURL |-> input.url],
                            input.signOk)]
    /\ UNCHANGED <<cfg, db, fs, reqs, input>>

Next == UploadVideo \/ ReadVideo

Spec == Init /\ [][Next]_vars

NextCalls ==
    \/ CallUploadVideo
    \/ CallGetVideoAspectRatio
    \/ CallProcessVideoForFastStart
    \/ CallGeneratePresignedURL
    \/ CallDbVideoToSignedVideo

SpecCalls == InitCalls /\ [][NextCalls]_vars

(***************************************************************************)
(* Properties                                                              *)
(***************************************************************************)
Uploaded == last.op = "handlerUploadVideo"

Trace == last.out.trace

Indexes(name) == {i \in 1..Len(Trace) : Trace[i].call = name}

ArgOf(name) == Trace[CHOOSE i \in Indexes(name) : TRUE].arg

Abs(x) == IF x < 0 THEN -x ELSE x

Commas(s) == {i \in 1..Len(s) : s[i] = ","}

FirstComma(s) == CHOOSE i \in Commas(s) : \A j \in Commas(s) : i <= j

\* the calls of handlerUploadVideo, in the order of the program text
ProgramOrder ==
    <<"uuid.Parse", "auth.GetBearerToken", "auth.ValidateJWT", "GetVideo",
      "FormFile", "mime.ParseMediaType", "os.CreateTemp", "io.Copy",
      "getVideoAspectRatio", "classify", "dst.Seek", "rand.Read", "PutObject",
      "UpdateVideo">>

\* C1: the VideoURL the upload handler persists is absent or "<bucket>,<key>"
\* of the uploaded object, and the read path decodes it to a non-empty bucket
\* and a non-empty key.
C1_PersistedReferenceDecodes ==
    /\ db.VideoURL # NilPtr =>
          LET s == Deref(db.VideoURL)
          IN  /\ Commas(s) # {}
              /\ FirstComma(s) > 1
              /\ FirstComma(s) < Len(s)
              /\ dbVideoToSignedVideo("client", db, TRUE).err = NoErr
    /\ (Uploaded /\ last.out.status = 200) =>
          db.VideoURL = Ptr(ArgOf("PutObject").Bucket \o <<",">>
                                \o ArgOf("PutObject").Key)

\* the stages of the pipeline, as the calls that carry them out
PipelineStages ==
    <<"getVideoAspectRatio", "classify", "processVideoForFastStart", "rand.Read",
      "PutObject", "UpdateVideo">>

IsStage(c) == \E i \in 1..Len(PipelineStages) : PipelineStages[i] = c.call

\* C2: a request that reaches the persist step ran inspect, classify, remux,
\* key-generate, upload, persist once each and in that order, and uploaded
\* the remuxed file.
C2_StagesOnceInOrder ==
    (Uploaded /\ Indexes("UpdateVideo") # {}) =>
        LET stages == SelectSeq(Trace, IsStage)
        IN  /\ [i \in 1..Len(stages) |-> stages[i].call] = PipelineStages
            /\ ArgOf("PutObject").Body.path = last.out.temp \o <<".processing">>

\* C3: once the handler has returned, the temporary file it created and any
\* remuxed copy of it are gone, and no request has left a temporary file.
C3_TempFilesRemoved ==
    /\ (Uploaded /\ last.out.temp # EmptyPath) =>
          /\ last.out.temp \notin fs
          /\ (last.out.temp \o <<".processing">>) \notin fs
    /\ \A p \in fs : p[1] # "/tmp/"

\* C4: a failing stage is the last call of its request, no call is made
\* twice, UpdateVideo is called at most once and only after PutObject
\* succeeded, and a request that fails before persisting leaves the stored
\* VideoURL as it was.
C4_FailureAbortsAndPreserves ==
    Uploaded =>
        /\ Len(Trace) <= Len(ProgramOrder)
        /\ \A i \in 1..Len(Trace) : Trace[i].call = ProgramOrder[i]
        /\ \A i \in 1..(Len(Trace) - 1) : Trace[i].ok
        /\ Cardinality(Indexes("UpdateVideo")) <= 1
        /\ \A i \in Indexes("UpdateVideo") :
              \E j \in Indexes("PutObject") : j < i /\ Trace[j].ok
        /\ (last.out.status # 200 /\ Indexes("UpdateVideo") = {}) =>
              db.VideoURL = last.out.before.VideoURL

\* a second upload whose PutObject failed, after a first one that persisted
C4_Witness ==
    /\ Uploaded
    /\ Len(Trace) = 13
    /\ ~Trace[13].ok
    /\ last.out.before.VideoURL # NilPtr

ReadCalled == last.op = "dbVideoToSignedVideo" /\ input.op = "dbVideoToSignedVideo"

\* C5 (as claimed): an empty stored reference is treated like an absent one:
\* the record comes back unchanged, with no error and no signing call.
C5_EmptyTreatedAsAbsent ==
    (ReadCalled /\ input.url = Ptr(EmptyString)) =>
        /\ last.out.err = NoErr
        /\ last.out.video.VideoURL = input.url
        /\ last.out.asked = <<>>
        /\ last.out.signed = <<>>

\* C5 (amended): an empty stored reference comes back unchanged and unsigned
\* but with the error "video has empty VideoURL"; only an absent reference
\* comes back without error.
C5_EmptyRejectedAbsentAccepted ==
    /\ (ReadCalled /\ input.url = Ptr(EmptyString)) =>
          /\ last.out.err = "video has empty VideoURL"
          /\ last.out.video.VideoURL = input.url
          /\ last.out.asked = <<>>
          /\ last.out.signed = <<>>
    /\ (ReadCalled /\ input.url = NilPtr) =>
          /\ last.out.err = NoErr
          /\ last.out.video.VideoURL = NilPtr
          /\ last.out.asked = <<>>
          /\ last.out.signed = <<>>

C5_Witness == ReadCalled /\ input.url = Ptr(EmptyString)

MalformedErrors == {"invalid VideoURL format", "invalid bucket/key"}

\* no comma, or nothing before or nothing after the first comma
Malformed(s) ==
    s # EmptyString
    /\ (Commas(s) = {} \/ FirstComma(s) = 1 \/ FirstComma(s) = Len(s))

\* C6: a non-empty stored reference with no comma, or with an empty segment
\* before or after its first comma, yields a malformed-reference error, no
\* signing call, and the record with its VideoURL as it was.
C6_MalformedRejected ==
    (ReadCalled /\ input.url # NilPtr /\ Malformed(Deref(input.url))) =>
        /\ last.out.err \in MalformedErrors
        /\ last.out.err # NoErr
        /\ last.out.asked = <<>>
        /\ last.out.signed = <<>>
        /\ last.out.video.VideoURL = input.url

C6_Witness ==
    /\ ReadCalled
    /\ input.url = Ptr(<<",", "a">>)
    /\ last.out.err = "invalid bucket/key"

\* "<bucket>,<key>" for a non-empty bucket and key without a comma
Encoded(s) ==
    /\ Cardinality(Commas(s)) = 1
    /\ FirstComma(s) > 1
    /\ FirstComma(s) < Len(s)

BucketOf(s) == SubSeq(s, 1, FirstComma(s) - 1)

KeyOf(s) == SubSeq(s, FirstComma(s) + 1, Len(s))

NoOuterSpace(s) == ~IsSpace(s[1]) /\ ~IsSpace(s[Len(s)])

\* C7 (as claimed): decoding "<bucket>,<key>" passes exactly (bucket, key) to
\* generatePresignedURL, whitespace included.
C7_RoundTripExact ==
    (ReadCalled /\ input.url # NilPtr /\ Encoded(Deref(input.url))) =>
        LET s == Deref(input.url)
        IN  /\ Len(last.out.asked) = 1
            /\ last.out.asked[1].bucket = BucketOf(s)
            /\ last.out.asked[1].key = KeyOf(s)

\* C7 (amended): the round trip is exact for a bucket and key that neither
\* start nor end with whitespace.
C7_RoundTripWithoutOuterSpace ==
    (/\ ReadCalled
     /\ input.url # NilPtr
     /\ Encoded(Deref(input.url))
     /\ NoOuterSpace(BucketOf(Deref(input.url)))
     /\ NoOuterSpace(KeyOf(Deref(input.url)))) =>
        LET s == Deref(input.url)
        IN  /\ Len(last.out.asked) = 1
            /\ last.out.asked[1].bucket = BucketOf(s)
            /\ last.out.asked[1].key = KeyOf(s)

C7_Witness ==
    /\ ReadCalled
    /\ input.url = Ptr(<<"a", ",", "a", "a">>)
    /\ Len(last.out.asked) = 1

SignCalled ==
    /\ last.op = "generatePresignedURL"
    /\ input.op = "generatePresignedURL"
    /\ input.client # "nil"
    /\ input.bucket # EmptyString
    /\ input.key # EmptyString

\* C8: with a client, a bucket and a key, the signer is handed 15 minutes for
\* a duration <= 0, 7 days for one above 7 days and the duration itself
\* otherwise; the call fails only if the signer does.
C8_ExpiryClamped ==
    SignCalled =>
        LET d == input.expireTime
            want == IF d <= 0 THEN 900 ELSE IF d > 604800 THEN 604800 ELSE d
        IN  /\ Len(last.out.signed) = 1
            /\ last.out.signed[1].Expires = want
            /\ last.out.signed[1].Expires > 0
            /\ last.out.signed[1].Expires <= 604800
            /\ (last.out.err = NoErr) <=> input.signOk

C8_Witness ==
    /\ SignCalled
    /\ input.expireTime > 604800
    /\ last.out.signed[1].Expires = 604800

GeometryUploaded ==
    Uploaded /\ input.op = "handlerUploadVideo" /\ last.out.status = 200

Width == input.e.probe.streams[1].Width

Height == input.e.probe.streams[1].Height

\* the orientation segment of the storage key
KeyOrientation ==
    LET key == ArgOf("PutObject").Key
    IN  SubSeq(key, 1, IndexFrom(key, "/", 1) - 1)

Landscape == <<"l", "a", "n", "d", "s", "c", "a", "p", "e">>

Portrait == <<"p", "o", "r", "t", "r", "a", "i", "t">>

Other == <<"o", "t", "h", "e", "r">>

\* |w/h - 16/9| against 0.02 and |w/h - 9/16| against 0.02, in exact
\* arithmetic: -1 below, 0 equal, 1 above
WideBand(w, h) ==
    IF 50 * Abs(9 * w - 16 * h) < 9 * h THEN -1
    ELSE IF 50 * Abs(9 * w - 16 * h) = 9 * h THEN 0 ELSE 1

TallBand(w, h) ==
    IF 25 * Abs(16 * w - 9 * h) < 8 * h THEN -1
    ELSE IF 25 * Abs(16 * w - 9 * h) = 8 * h THEN 0 ELSE 1

\* C9 (as claimed): the key's orientation is landscape exactly when
\* |w/h - 16/9| < 0.02, portrait exactly when not so and |w/h - 9/16| < 0.02,
\* other otherwise, and no geometry lies in both bands.
C9_BandsExact ==
    GeometryUploaded =>
        LET wide == WideBand(Width, Height) < 0
            tall == WideBand(Width, Height) >= 0 /\ TallBand(Width, Height) < 0
        IN  /\ (KeyOrientation = Landscape) <=> wide
            /\ (KeyOrientation = Portrait) <=> tall
            /\ (KeyOrientation = Other) <=> (~wide /\ ~tall)
            /\ ~(WideBand(Width, Height) < 0 /\ TallBand(Width, Height) < 0)

\* C9 (amended): the same away from the edge of a band; a ratio exactly 0.02
\* from 16/9 or 9/16 is classified as float64 rounding falls: 791x450 is
\* landscape, 809x450, 233x400 and 217x400 are other.
C9_BandsUpToRounding ==
    GeometryUploaded =>
        LET wb == WideBand(Width, Height)
            tb == TallBand(Width, Height)
        IN  /\ wb < 0 => KeyOrientation = Landscape
            /\ wb > 0 => KeyOrientation # Landscape
            /\ (wb > 0 /\ tb < 0) => KeyOrientation = Portrait
            /\ tb > 0 => KeyOrientation # Portrait
            /\ (wb > 0 /\ tb > 0) => KeyOrientation = Other
            /\ KeyOrientation \in {Landscape, Portrait, Other}
            /\ ~(wb <= 0 /\ tb <= 0)
            /\ <<Width, Height>> \in {<<1920, 1080>>, <<1280, 720>>, <<791, 450>>}
                  => KeyOrientation = Landscape
            /\ <<Width, Height>> = <<1080, 1920>> => KeyOrientation = Portrait
            /\ <<Width, Height>> \in {<<1000, 1000>>, <<809, 450>>, <<233, 400>>,
                                      <<217, 400>>}
                  => KeyOrientation = Other

C9_Witness ==
    /\ GeometryUploaded
    /\ <<Width, Height>> = <<791, 450>>
    /\ KeyOrientation = Landscape

\* C10: getVideoAspectRatio and processVideoForFastStart given an empty path,
\* and generatePresignedURL given an empty bucket or key, return an error
\* without starting an external tool or making a signing request.
C10_ValidationBeforeExternalCalls ==
    /\ (last.op = "getVideoAspectRatio" /\ input.filePath = EmptyPath) =>
          last.out.err # NoErr /\ last.out.ext = <<>>
    /\ (last.op = "processVideoForFastStart" /\ input.filePath = EmptyPath) =>
          last.out.err # NoErr /\ last.out.ext = <<>>
    /\ (/\ last.op = "generatePresignedURL"
        /\ (input.bucket = EmptyString \/ input.key = EmptyString)) =>
          last.out.err # NoErr /\ last.out.signed = <<>>

====
